---- MODULE Spec2Model ----
(***************************************************************************)
(* Model of the Prometheus remote-write output                             *)
(* (plugins/outputs/prometheus_remote_write/prometheus_remote_write.go).   *)
(*                                                                         *)
(* Strings are sequences of byte values, so that sanitising, renaming and  *)
(* the byte-wise ordering used by sort.Sort(byName) are computed and not   *)
(* assumed.  Wall-clock time is counted in seconds, metric timestamps in   *)
(* nanoseconds.                                                            *)
(***************************************************************************)
EXTENDS Integers, Sequences, FiniteSets, TLC

VARIABLES
    phase,        \* "new" | "ready" | "crashed" (a panic ended the process)
    clients,      \* p.clients: sequence of handles, a handle is the time it was built
    nextIndex,    \* p.nextIndex
    nextResolve,  \* p.nextResolve, seconds
    now,          \* time.Now(), seconds
    pending,      \* the batch the agent hands to the next Write call
    last,         \* observation of the last completed call
    streak,       \* indices selected by the successful, rebuild-free calls since the cursor was 0
    calls,        \* Write calls in progress when callers share the instance: position, loaded cursor
    pg            \* the PostgreSQL output: p.Tables and the statements of its last Write call

vars == <<phase, clients, nextIndex, nextResolve, now, pending, last, streak, calls, pg>>

----------------------------------------------------------------------------
(* Bounds of the model *)

MaxIPs == 2
MaxTime == 150
MaxRecords == 2
MaxTags == 2
MaxFields == 2
NumCallers == 2
MaxCursor == 8
MaxPgBatch == 2

(* Program constants *)

PoolFactor == 5
BaseDelay == 60
JitterRange == 90
NanosPerMilli == 1000000

----------------------------------------------------------------------------
(* Byte strings *)

CH_DASH == 45
CH_DOT == 46
CH_UNDERSCORE == 95

S_name == <<95, 95, 110, 97, 109, 101, 95, 95>>             \* "__name__"
S_host == <<104, 111, 115, 116>>                            \* "host"
S_a_dash_b == <<97, 45, 98>>                                \* "a-b"
S_a_under_b == <<97, 95, 98>>                               \* "a_b"
S_cpu_usage == <<99, 112, 117, 46, 117, 115, 97, 103, 101>> \* "cpu.usage"
S_mem == <<109, 101, 109>>                                  \* "mem"
S_idle == <<105, 100, 108, 101>>                            \* "idle"
S_used == <<117, 115, 101, 100>>                            \* "used"
S_free == <<102, 114, 101, 101>>                            \* "free"
S_v1 == <<118, 49>>                                         \* "v1"
S_v2 == <<118, 50>>                                         \* "v2"
S_rx_b == <<114, 120, 46, 98>>                              \* "rx.b"
S_net_io == <<110, 101, 116, 45, 105, 111>>                 \* "net-io"

Min(a, b) == IF a < b THEN a ELSE b

\* Go's < on strings: byte-wise lexicographic order.
StrLess(a, b) ==
    \E i \in 1..(Min(Len(a), Len(b)) + 1) :
        /\ \A j \in 1..(i - 1) : a[j] = b[j]
        /\ \/ i > Len(a) /\ i <= Len(b)
           \/ i <= Len(a) /\ i <= Len(b) /\ a[i] < b[i]

IsLetter(c) == (c >= 65 /\ c <= 90) \/ (c >= 97 /\ c <= 122)
IsDigit(c) == c >= 48 /\ c <= 57

\* prometheus_client.Sanitize: every character outside the label-name grammar
\* [a-zA-Z_][a-zA-Z0-9_]* becomes "_".
Sanitize(s) ==
    [i \in 1..Len(s) |->
        IF IsLetter(s[i]) \/ s[i] = CH_UNDERSCORE \/ (IsDigit(s[i]) /\ i > 1)
        THEN s[i] ELSE CH_UNDERSCORE]

\* A replacer that knows "-" only.
renameMetricsDashOnly(s) ==
    [i \in 1..Len(s) |-> IF s[i] = CH_DASH THEN CH_UNDERSCORE ELSE s[i]]

\* strings.NewReplacer(".", "_", "-", "_").Replace
renameMetrics(s) ==
    [i \in 1..Len(s) |-> IF s[i] = CH_DOT \/ s[i] = CH_DASH THEN CH_UNDERSCORE ELSE s[i]]

\* Go's integer division truncates toward zero.
GoDiv(a, b) == IF a >= 0 THEN a \div b ELSE -((-a) \div b)

----------------------------------------------------------------------------
(* Metric-to-TimeSeries encoder *)

Kinds == {"Counter", "Gauge", "Untyped", "Summary", "Histogram"}

\* func (a byName) Less(i, j int) bool
byNameLess(a, i, j) == StrLess(a[i].Name, a[j].Name)

\* func (a byName) Swap(i, j int)
byNameSwap(a, i, j) == [a EXCEPT ![i] = a[j], ![j] = a[i]]

\* Inner loop of the insertion sort sort.Sort runs on slices of at most 12
\* elements: for j := i; j > a && Less(j, j-1); j-- { Swap(j, j-1) }
RECURSIVE SiftDown(_, _)
SiftDown(a, j) ==
    IF j > 1 /\ byNameLess(a, j, j - 1)
    THEN SiftDown(byNameSwap(a, j, j - 1), j - 1)
    ELSE a

RECURSIVE InsertionSortFrom(_, _)
InsertionSortFrom(a, i) ==
    IF i > Len(a) THEN a ELSE InsertionSortFrom(SiftDown(a, i), i + 1)

\* A label sort that leaves the slice as it was built.
SortByNameNoSort(labels) == labels

\* sort.Sort(byName(labels))
SortByName(labels) == InsertionSortFrom(labels, 2)

\* commonLabels: one label per tag, name sanitised, value verbatim
CommonLabels(metric) ==
    [i \in 1..Len(metric.tags) |->
        [Name |-> Sanitize(metric.tags[i].Key), Value |-> metric.tags[i].Value]]

\* labels of one field's series: the common labels, then __name__, sorted
FieldLabels(metric, field) ==
    SortByName(Append(CommonLabels(metric),
        [Name |-> S_name,
         Value |-> renameMetrics(metric.name) \o <<CH_UNDERSCORE>> \o field.Key]))

\* A kind switch that lets summaries through.
SkippedKindHistogramOnly(kind) == kind = "Histogram"

\* case telegraf.Histogram, telegraf.Summary: continue
SkippedKind(kind) == kind \in {"Histogram", "Summary"}

\* A type switch that also takes booleans.
IsNumericWithBool(fv) == fv.type \in {"int64", "uint64", "float64", "bool"}

\* the cases of the type switch that produce a value
IsNumeric(fv) == fv.type \in {"int64", "uint64", "float64"}

\* float64(fv); every value of the model is below 2^31 and so exactly representable
ToFloat64(fv) == fv.v

\* metric.Time().UnixNano() / int64(time.Millisecond)
TimestampMs(metric) == GoDiv(metric.time, NanosPerMilli)

\* the TimeSeries appended for one field
MakeSeries(metric, field) ==
    [Labels |-> FieldLabels(metric, field),
     Samples |-> <<[Timestamp |-> TimestampMs(metric), Value |-> ToFloat64(field.Value)]>>]

\* An append that puts the new series first.
AppendSeriesFront(ts, s) == <<s>> \o ts

\* req.Timeseries = append(req.Timeseries, ...)
AppendSeries(ts, s) == Append(ts, s)

\* body of the field loop: the two "continue" switches, then the append
EncodeField(ts, metric, field) ==
    IF SkippedKind(metric.kind) THEN ts
    ELSE IF ~IsNumeric(field.Value) THEN ts
    ELSE AppendSeries(ts, MakeSeries(metric, field))

\* for _, field := range metric.FieldList()
RECURSIVE EncodeFields(_, _, _)
EncodeFields(ts, metric, i) ==
    IF i > Len(metric.fields) THEN ts
    ELSE EncodeFields(EncodeField(ts, metric, metric.fields[i]), metric, i + 1)

\* for _, metric := range metrics
RECURSIVE EncodeMetrics(_, _, _)
EncodeMetrics(ts, metrics, i) ==
    IF i > Len(metrics) THEN ts
    ELSE EncodeMetrics(EncodeFields(ts, metrics[i], 1), metrics, i + 1)

\* the WriteRequest built by Write
Encode(metrics) == [Timeseries |-> EncodeMetrics(<<>>, metrics, 1)]

----------------------------------------------------------------------------
(* Inputs *)

TagKeyOrder == <<S_name, S_a_dash_b, S_a_under_b, S_host>>   \* ascending, as TagList() returns them
TagValueOf(k) == IF k = S_host THEN S_v1 ELSE S_v2

\* the fields records are built from, in FieldList() order
FieldOrder ==
    << [Key |-> S_idle, Value |-> [type |-> "int64", v |-> 3]],
       [Key |-> S_used, Value |-> [type |-> "string", v |-> 0]],
       [Key |-> S_free, Value |-> [type |-> "float64", v |-> 5]],
       [Key |-> S_v1, Value |-> [type |-> "bool", v |-> 1]],
       [Key |-> S_rx_b, Value |-> [type |-> "uint64", v |-> 7]] >>

\* the subsequences of s that keep at most n elements
RECURSIVE SubSeqsFrom(_, _, _)
SubSeqsFrom(s, i, n) ==
    IF i > Len(s) \/ n = 0 THEN {<<>>}
    ELSE SubSeqsFrom(s, i + 1, n)
         \cup {<<s[i]>> \o t : t \in SubSeqsFrom(s, i + 1, n - 1)}

TagLists ==
    {[i \in 1..Len(ks) |-> [Key |-> ks[i], Value |-> TagValueOf(ks[i])]] :
        ks \in SubSeqsFrom(TagKeyOrder, 1, MaxTags)}

FieldLists == SubSeqsFrom(FieldOrder, 1, MaxFields)

Rec(n, tl, fl, k, t) == [name |-> n, tags |-> tl, fields |-> fl, kind |-> k, time |-> t]

Records ==
    {Rec(S_cpu_usage, tl, <<FieldOrder[1]>>, "Gauge", 1500000123) : tl \in TagLists}
    \cup {Rec(S_mem, <<[Key |-> S_host, Value |-> S_v1]>>, fl, "Gauge", 999999) : fl \in FieldLists}
    \cup {Rec(S_net_io, <<>>, <<FieldOrder[1], FieldOrder[2]>>, k, 2000000) : k \in Kinds}

RECURSIVE SeqsUpTo(_, _)
SeqsUpTo(S, n) ==
    IF n = 0 THEN {<<>>}
    ELSE SeqsUpTo(S, n - 1) \cup {Append(b, r) : b \in SeqsUpTo(S, n - 1), r \in S}

\* the batches the encoder is checked on
Batches == SeqsUpTo(Records, MaxRecords)

\* the batches the delivery path is checked on
SmallBatches ==
    { <<Rec(S_mem, <<[Key |-> S_host, Value |-> S_v1]>>, <<FieldOrder[3]>>, "Gauge", 999999)>>,
      <<Rec(S_mem, <<>>, <<FieldOrder[1]>>, "Summary", 2000000)>> }

Statuses == {199, 200, 299, 300, 503}

\* what client.Do returns: a transport error or a response with a status
Responses ==
    {[ok |-> FALSE, status |-> 0]} \cup {[ok |-> TRUE, status |-> s] : s \in Statuses}

\* what the environment answers to one resolveDns call
ConnectResolutions ==
    {[err |-> e, n |-> 0] : e \in {"tls", "url", "dns"}}
    \cup {[err |-> "none", n |-> k] : k \in 1..MaxIPs}

\* the URL parsed at Connect parses again at every refresh
RefreshResolutions == {r \in ConnectResolutions : r.err # "url"}

\* rand.Intn(90) yields 0..89; the model keeps both ends of the range
Jitters == {0, JitterRange - 1}

\* steps of the clock: just short of the base delay, and the whole jitter range
TickSteps == {BaseDelay - 1, JitterRange}

Env(m, q, resp, r, j) == [marshalOk |-> m, requestOk |-> q, resp |-> resp, r |-> r, jitter |-> j]

QuietResolution == [err |-> "none", n |-> 1]
OkResponse == [ok |-> TRUE, status |-> 200]

\* the answers a Write call can get; an answer the call never asks for is held fixed
WriteEnvs ==
    {Env(FALSE, TRUE, OkResponse, QuietResolution, 0),
     Env(TRUE, FALSE, OkResponse, QuietResolution, 0)}
    \cup {Env(TRUE, TRUE, resp, QuietResolution, 0) :
              resp \in {x \in Responses : ~x.ok \/ x.status \notin 200..299}}
    \cup {Env(TRUE, TRUE, resp, r, j) :
              resp \in {x \in Responses : x.ok /\ x.status \in 200..299},
              r \in RefreshResolutions,
              j \in Jitters}

----------------------------------------------------------------------------
(* Pool manager *)

\* A loop that builds exactly 5 handles per address.
PoolSizeExact(nips) == PoolFactor * nips

\* for i := 0; i <= 5*len(ips); i++ { append }
PoolSize(nips) == PoolFactor * nips + 1

\* A deadline without the base delay.
DeadlineJitterOnly(t, jitter) == t + jitter

\* time.Now().Add(60*time.Second + time.Duration(rand.Intn(90))*time.Second)
Deadline(t, jitter) == t + BaseDelay + jitter

\* resolveDns: the fields of p after the call, and its error
ResolveDns(r, jitter, cl, nr, t) ==
    IF r.err = "tls" THEN [err |-> "tls", clients |-> cl, nextResolve |-> nr, n |-> 0]
    ELSE IF r.err = "url" THEN [err |-> "url", clients |-> <<>>, nextResolve |-> nr, n |-> 0]
    ELSE IF r.err = "dns" THEN [err |-> "dns", clients |-> <<>>, nextResolve |-> nr, n |-> 0]
    ELSE [err |-> "none",
          clients |-> [i \in 1..PoolSize(r.n) |-> t],
          nextResolve |-> Deadline(t, jitter),
          n |-> r.n]

\* A cursor that is advanced and never wrapped.
NextIndexNoWrap(idx, n) == idx + 1

\* A cursor that is never advanced.
NextIndexStuck(idx, n) == IF idx >= n THEN 0 ELSE idx

\* p.nextIndex++; if p.nextIndex >= len(p.clients) { p.nextIndex = 0 }
NextIndexAfter(idx, n) == IF idx + 1 >= n THEN 0 ELSE idx + 1

\* A status test that takes only 200 for success.
IsRejectedUnless200(status) == status # 200

\* resp.StatusCode/100 != 2
IsRejected(status) == GoDiv(status, 100) # 2

\* A deadline test with the comparison reversed.
RefreshDueReversed(nr, t) == nr - t >= 0

\* p.nextResolve.Sub(time.Now()) <= 0
RefreshDue(nr, t) == nr - t <= 0

\* what Write returns and leaves once client.Do has answered
Settled(outcome, err, errStatus, status, cl, nr, resolved, n) ==
    [outcome |-> outcome, err |-> err, errStatus |-> errStatus, status |-> status,
     clients |-> cl, nextResolve |-> nr, resolved |-> resolved, n |-> n]

\* the refresh of a call whose deadline test fired
Refreshed(status, res) ==
    Settled(IF res.err = "none" THEN "ok" ELSE "error", res.err, 0, status,
            res.clients, res.nextResolve, TRUE, res.n)

\* A tail that looks at the deadline before it looks at the status.
SettleRefreshFirst(resp, r, jitter, cl, nr, t) ==
    IF ~resp.ok THEN Settled("error", "transport", 0, 0, cl, nr, FALSE, 0)
    ELSE LET due == RefreshDue(nr, t)
             res == ResolveDns(r, jitter, cl, nr, t)
         IN IF due /\ res.err # "none" THEN Refreshed(resp.status, res)
            ELSE IF IsRejected(resp.status)
            THEN Settled("error", "rejected", resp.status, resp.status,
                         IF due THEN res.clients ELSE cl,
                         IF due THEN res.nextResolve ELSE nr, FALSE, 0)
            ELSE IF due THEN Refreshed(resp.status, res)
            ELSE Settled("ok", "none", 0, resp.status, cl, nr, FALSE, 0)

\* resp, err := p.clients[p.nextIndex].Do(httpReq) and the rest of Write
Settle(resp, r, jitter, cl, nr, t) ==
    IF ~resp.ok THEN Settled("error", "transport", 0, 0, cl, nr, FALSE, 0)
    ELSE IF IsRejected(resp.status)
    THEN Settled("error", "rejected", resp.status, resp.status, cl, nr, FALSE, 0)
    ELSE IF ~RefreshDue(nr, t) THEN Settled("ok", "none", 0, resp.status, cl, nr, FALSE, 0)
    ELSE Refreshed(resp.status, ResolveDns(r, jitter, cl, nr, t))

----------------------------------------------------------------------------
(* Calls *)

NoReq == [Timeseries |-> <<>>]

NoCall ==
    [op |-> "none", outcome |-> "none", err |-> "none", errStatus |-> 0,
     metrics |-> <<>>, req |-> NoReq, trace |-> <<>>, status |-> 0,
     resolvedN |-> 0, idx |-> -1, due |-> "none"]

Count(trace, e) == Cardinality({i \in 1..Len(trace) : trace[i] = e})

Callers == 1..NumCallers

\* no call in progress
NoCalls ==
    [pc |-> [p \in Callers |-> "idle"], tmp |-> [p \in Callers |-> 0],
     i |-> [p \in Callers |-> 0], n |-> [p \in Callers |-> 0],
     held |-> [p \in Callers |-> <<>>],
     lost |-> FALSE, badRead |-> FALSE, overlapped |-> FALSE]

\* &Postgresql{}: no database handle, p.Tables nil
NoPg ==
    [version |-> "none", connected |-> FALSE, op |-> "none", Tables |-> {},
     log |-> <<>>, outcome |-> "none"]

Init ==
    /\ phase = "new"
    /\ clients = <<>>
    /\ nextIndex = 0
    /\ nextResolve = 0
    /\ now = 0
    /\ pending \in SmallBatches
    /\ last = NoCall
    /\ streak = [valid |-> FALSE, idxs |-> <<>>]
    /\ calls = NoCalls
    /\ pg = NoPg

\* the streak after a call that ended a run of successful, rebuild-free calls
FreshStreak(ph, idx) == [valid |-> ph = "ready" /\ idx = 0, idxs |-> <<>>]

\* func (p *PrometheusRemoteWrite) Connect() error
Connect(r, jitter) ==
    /\ phase # "crashed"
    /\ LET res == ResolveDns(r, jitter, clients, nextResolve, now)
           ph == IF res.err = "none" THEN "ready" ELSE "new"
       IN /\ phase' = ph
          /\ clients' = res.clients
          /\ nextResolve' = res.nextResolve
          /\ last' = [NoCall EXCEPT !.op = "connect",
                                    !.outcome = IF res.err = "none" THEN "ok" ELSE "error",
                                    !.err = res.err,
                                    !.trace = <<"resolve">>,
                                    !.resolvedN = res.n]
          /\ streak' = FreshStreak(ph, nextIndex)
    /\ UNCHANGED <<nextIndex, now, pending, calls, pg>>

\* the state a Write call leaves, from what the call did
Finish(ph, cl, idx, nr, batch, obs) ==
    /\ phase' = ph
    /\ clients' = cl
    /\ nextIndex' = idx
    /\ nextResolve' = nr
    /\ pending' = batch
    /\ last' = obs
    /\ streak' =
         IF /\ streak.valid /\ obs.outcome = "ok" /\ Count(obs.trace, "resolve") = 0
            /\ Len(streak.idxs) + 1 < Len(clients)
         THEN [streak EXCEPT !.idxs = Append(@, idx)]
         ELSE FreshStreak(ph, idx)
    /\ UNCHANGED <<now, calls, pg>>

\* where the clock stands against the refresh deadline
DueKind(nr, t) == IF t < nr THEN "before" ELSE IF t = nr THEN "at" ELSE "after"

\* func (p *PrometheusRemoteWrite) Write(metrics []telegraf.Metric) error
\* env is what the libraries answer during the call: proto.Marshal, http.NewRequest,
\* client.Do, and the resolution and jitter of a refresh.
Write(nextBatch, env) ==
    /\ phase = "ready"
    /\ LET idx == NextIndexAfter(nextIndex, Len(clients))
           req == Encode(pending)
           marshalOk == env.marshalOk
           requestOk == env.requestOk
           resp == env.resp
           r == env.r
           jitter == env.jitter
           obs == [NoCall EXCEPT !.op = "write", !.metrics = pending, !.req = req,
                                 !.due = DueKind(nextResolve, now)]
           built == <<"acquire", "encode", "marshal", "compress", "request">>
           sent == Append(built, "post")
       IN IF ~marshalOk THEN
              Finish("ready", clients, idx, nextResolve, nextBatch,
                     [obs EXCEPT !.outcome = "error", !.err = "marshal",
                                 !.trace = <<"acquire", "encode", "marshal">>])
          ELSE IF ~requestOk THEN
              Finish("ready", clients, idx, nextResolve, nextBatch,
                     [obs EXCEPT !.outcome = "error", !.err = "request", !.trace = built])
          ELSE IF idx >= Len(clients) THEN
              \* p.clients[p.nextIndex] on an empty pool: index out of range
              Finish("crashed", clients, idx, nextResolve, nextBatch,
                     [obs EXCEPT !.outcome = "panic", !.trace = built])
          ELSE
              LET s == Settle(resp, r, jitter, clients, nextResolve, now)
              IN Finish("ready", s.clients, idx, s.nextResolve, nextBatch,
                        [obs EXCEPT !.outcome = s.outcome, !.err = s.err,
                                    !.errStatus = s.errStatus, !.status = s.status,
                                    !.trace = IF s.resolved THEN Append(sent, "resolve") ELSE sent,
                                    !.resolvedN = s.n, !.idx = idx])

\* the wall clock advances between calls
Tick(d) ==
    /\ phase # "crashed"
    /\ now + d <= MaxTime
    /\ now' = now + d
    /\ UNCHANGED <<phase, clients, nextIndex, nextResolve, pending, last, streak, calls, pg>>

DoConnect == \E r \in ConnectResolutions, j \in Jitters : Connect(r, j)

DoWrite == \E b \in SmallBatches, env \in WriteEnvs : Write(b, env)

DoTick == \E d \in TickSteps : Tick(d)

Next == DoConnect \/ DoWrite \/ DoTick

Spec == Init /\ [][Next]_vars

\* The encoder on its own: the batch is drawn at the start, the pool is built
\* from one address and the remote accepts every request.
InitEnc ==
    /\ phase = "new"
    /\ clients = <<>>
    /\ nextIndex = 0
    /\ nextResolve = 0
    /\ now = 0
    /\ pending \in Batches
    /\ last = NoCall
    /\ streak = [valid |-> FALSE, idxs |-> <<>>]
    /\ calls = NoCalls
    /\ pg = NoPg

EncConnect == Connect(QuietResolution, 0)

EncWrite == Write(<<>>, Env(TRUE, TRUE, OkResponse, QuietResolution, 0))

NextEnc == EncConnect \/ EncWrite

SpecEnc == InitEnc /\ [][NextEnc]_vars

----------------------------------------------------------------------------
(* Callers sharing one instance: Write taken apart into its reads and writes of   *)
(* p.nextIndex, p.clients and p.nextResolve.  The encoding of the batch touches   *)
(* no shared field and is left out; the remote answers 200 or 503, and a refresh  *)
(* resolves one address or fails in net.LookupIP.  Every read and every write of  *)
(* a shared field is a step of its own; what a caller holds between them is in    *)
(* calls (tmp: the cursor read, held: the slice read, i: the loop counter, n:      *)
(* len(ips)).  A slice is read and written whole.                                 *)

At(p, pos) == calls.pc[p] = pos
Goto(p, pos) == [calls EXCEPT !.pc[p] = pos]

ConcFrame == UNCHANGED <<now, pending, last, streak, pg>>

\* p.nextIndex++, the read
CLoad(p) ==
    /\ phase = "ready" /\ At(p, "idle")
    /\ calls' = [calls EXCEPT !.pc[p] = "inc", !.tmp[p] = nextIndex,
                              !.overlapped = @ \/ \E q \in Callers : q # p /\ ~At(q, "idle")]
    /\ UNCHANGED <<phase, clients, nextIndex, nextResolve>>
    /\ ConcFrame

\* p.nextIndex++, the write
CStore(p) ==
    /\ phase = "ready" /\ At(p, "inc")
    /\ calls.tmp[p] + 1 <= MaxCursor    \* interleaved callers can drive the cursor up without limit
    /\ nextIndex' = calls.tmp[p] + 1
    /\ calls' = [calls EXCEPT !.pc[p] = "cmp", !.tmp[p] = 0,
                              !.lost = @ \/ nextIndex # calls.tmp[p]]
    /\ UNCHANGED <<phase, clients, nextResolve>>
    /\ ConcFrame

\* if p.nextIndex >= len(p.clients)
CCompare(p) ==
    /\ phase = "ready" /\ At(p, "cmp")
    /\ calls' = Goto(p, IF nextIndex >= Len(clients) THEN "reset" ELSE "send")
    /\ UNCHANGED <<phase, clients, nextIndex, nextResolve>>
    /\ ConcFrame

\* p.nextIndex = 0
CReset(p) ==
    /\ phase = "ready" /\ At(p, "reset")
    /\ nextIndex' = 0
    /\ calls' = Goto(p, "send")
    /\ UNCHANGED <<phase, clients, nextResolve>>
    /\ ConcFrame

\* p.clients[p.nextIndex].Do(httpReq): the index is read again here
CSend(p) ==
    /\ phase = "ready" /\ At(p, "send")
    /\ IF nextIndex >= Len(clients)
       THEN /\ phase' = "crashed"
            /\ calls' = [calls EXCEPT !.badRead = TRUE]
       ELSE /\ phase' = phase
            /\ calls' = Goto(p, "resp")
    /\ UNCHANGED <<clients, nextIndex, nextResolve>>
    /\ ConcFrame

\* the status test and the deadline test
CRespond(p, status) ==
    /\ phase = "ready" /\ At(p, "resp")
    /\ calls' = Goto(p, IF IsRejected(status) \/ ~RefreshDue(nextResolve, now)
                        THEN "idle" ELSE "clear")
    /\ UNCHANGED <<phase, clients, nextIndex, nextResolve>>
    /\ ConcFrame

\* resolveDns: p.clients = nil; p.clients = []http.Client{}
CClear(p) ==
    /\ phase = "ready" /\ At(p, "clear")
    /\ clients' = <<>>
    /\ calls' = Goto(p, "lookup")
    /\ UNCHANGED <<phase, nextIndex, nextResolve>>
    /\ ConcFrame

\* resolveDns: url.Parse and net.LookupIP, then the new deadline; a failed lookup
\* returns with nothing assigned
CLookup(p, r) ==
    /\ phase = "ready" /\ At(p, "lookup")
    /\ IF r.err # "none"
       THEN /\ calls' = Goto(p, "idle")
            /\ nextResolve' = nextResolve
       ELSE /\ calls' = [calls EXCEPT !.pc[p] = "loop", !.i[p] = 0, !.n[p] = r.n]
            /\ nextResolve' = Deadline(now, 0)
    /\ UNCHANGED <<phase, clients, nextIndex>>
    /\ ConcFrame

\* resolveDns: for i := 0; i <= 5*len(ips); i++, and the read of p.clients for append
CLoopLoad(p) ==
    /\ phase = "ready" /\ At(p, "loop")
    /\ calls' = IF calls.i[p] < PoolSize(calls.n[p])
                THEN [calls EXCEPT !.pc[p] = "append", !.held[p] = clients]
                ELSE [calls EXCEPT !.pc[p] = "idle", !.i[p] = 0, !.n[p] = 0]
    /\ UNCHANGED <<phase, clients, nextIndex, nextResolve>>
    /\ ConcFrame

\* resolveDns: p.clients = append(p.clients, http.Client{...}), the write
CAppendStore(p) ==
    /\ phase = "ready" /\ At(p, "append")
    /\ clients' = Append(calls.held[p], now)
    /\ calls' = [calls EXCEPT !.pc[p] = "loop", !.held[p] = <<>>, !.i[p] = @ + 1]
    /\ UNCHANGED <<phase, nextIndex, nextResolve>>
    /\ ConcFrame

ConcConnect == phase = "new" /\ Connect(QuietResolution, 0)

ConcTick == Tick(JitterRange)

ConcResolutions == {QuietResolution, [err |-> "dns", n |-> 0]}

NextConc ==
    \/ ConcConnect
    \/ ConcTick
    \/ \E p \in Callers : CLoad(p)
    \/ \E p \in Callers : CStore(p)
    \/ \E p \in Callers : CCompare(p)
    \/ \E p \in Callers : CReset(p)
    \/ \E p \in Callers : CSend(p)
    \/ \E p \in Callers, status \in {200, 503} : CRespond(p, status)
    \/ \E p \in Callers : CClear(p)
    \/ \E p \in Callers, r \in ConcResolutions : CLookup(p, r)
    \/ \E p \in Callers : CLoopLoad(p)
    \/ \E p \in Callers : CAppendStore(p)

SpecConc == Init /\ [][NextConc]_vars

----------------------------------------------------------------------------
(* PostgreSQL output (plugins/outputs/postgresql/postgresql.go).  The source file *)
(* holds two versions of the plugin; "current" is the one with tableExists,       *)
(* "first" the one with writeMetric.  A batch is the sequence of its metrics'     *)
(* table names; the database answers each statement of a metric as ans says.      *)

PgNames == {"cpu", "mem"}

PgBatches == SeqsUpTo(PgNames, MaxPgBatch)

Ans(e, c, t, i) == [exists |-> e, create |-> c, tags |-> t, insert |-> i]

\* the answers of the database to the statements of one metric
PgAnswers ==
    {Ans("found", TRUE, TRUE, TRUE), Ans("found", TRUE, TRUE, FALSE),
     Ans("found", TRUE, FALSE, TRUE),
     Ans("absent", FALSE, TRUE, TRUE), Ans("absent", TRUE, TRUE, TRUE),
     Ans("absent", TRUE, TRUE, FALSE), Ans("error", TRUE, TRUE, TRUE)}

RECURSIVE AnswerSeqs(_)
AnswerSeqs(n) ==
    IF n = 0 THEN {<<>>}
    ELSE {Append(a, x) : a \in AnswerSeqs(n - 1), x \in PgAnswers}

\* one statement sent to the database; marked is p.Tables[table] when it is sent
Stmt(kind, name, ok, tables) == [stmt |-> kind, table |-> name, ok |-> ok, marked |-> name \in tables]

\* A cache that is not written after CREATE TABLE.
MarkForgets(tables, name) == tables

\* p.Tables[tableName] = true
Mark(tables, name) == tables \cup {name}

\* the tag columns, the field columns and the INSERT of one metric
PgInsert(st, name, ans) ==
    IF ~ans.tags THEN [st EXCEPT !.outcome = "error"]
    ELSE [st EXCEPT !.log = Append(@, Stmt("insert", name, ans.insert, st.Tables)),
                    !.outcome = IF ans.insert THEN "ok" ELSE "error"]

\* CREATE TABLE, then the cache entry
PgCreate(st, name, ans) ==
    IF ~ans.create
    THEN [st EXCEPT !.log = Append(@, Stmt("create", name, FALSE, st.Tables)),
                    !.outcome = "error"]
    ELSE [st EXCEPT !.log = Append(@, Stmt("create", name, TRUE, st.Tables)),
                    !.Tables = Mark(@, name)]

\* func (p *Postgresql) tableExists(tableName string) bool
tableExists(st, name, ans) ==
    [st EXCEPT !.log = Append(@, Stmt("select", name, ans.exists = "found", st.Tables)),
               !.Tables = IF ans.exists = "found" THEN Mark(@, name) ELSE @]

\* body of the loop of Write, current version
PgMetric(st, name, ans) ==
    IF name \in st.Tables THEN PgInsert(st, name, ans)
    ELSE LET checked == tableExists(st, name, ans)
         IN IF ans.exists = "found" THEN PgInsert(checked, name, ans)
            ELSE LET created == PgCreate(checked, name, ans)
                 IN IF created.outcome = "error" THEN created
                    ELSE PgInsert(created, name, ans)

\* func (p *Postgresql) writeMetric(metric telegraf.Metric) error, first version
writeMetric(st, name, ans) ==
    IF name \in st.Tables THEN PgInsert(st, name, [ans EXCEPT !.tags = TRUE])
    ELSE LET created == PgCreate(st, name, ans)
         IN IF created.outcome = "error" THEN created
            ELSE PgInsert(created, name, [ans EXCEPT !.tags = TRUE])

\* for _, metric := range metrics, returning at the first error
RECURSIVE PgLoop(_, _, _, _)
PgLoop(st, batch, answers, i) ==
    IF i > Len(batch) \/ st.outcome = "error" THEN st
    ELSE PgLoop(IF st.version = "current"
                THEN PgMetric(st, batch[i], answers[i])
                ELSE writeMetric(st, batch[i], answers[i]),
                batch, answers, i + 1)

PgFrame == UNCHANGED <<phase, clients, nextIndex, nextResolve, now, pending, last, streak, calls>>

\* outputs.Add("postgresql", func() telegraf.Output { return &Postgresql{} })
InitPg ==
    /\ phase = "new"
    /\ clients = <<>>
    /\ nextIndex = 0
    /\ nextResolve = 0
    /\ now = 0
    /\ pending = <<>>
    /\ last = NoCall
    /\ streak = [valid |-> FALSE, idxs |-> <<>>]
    /\ calls = NoCalls
    /\ pg \in {[NoPg EXCEPT !.version = v] : v \in {"current", "first"}}

\* func (p *Postgresql) Connect() error
\* opened is whether sql.Open returned a handle; on an error nothing is assigned.
PgConnect(opened) ==
    /\ pg.version # "none" /\ pg.outcome # "panic"
    /\ pg' = IF opened
             THEN [pg EXCEPT !.op = "connect", !.connected = TRUE, !.Tables = {},
                             !.log = <<>>, !.outcome = "ok"]
             ELSE [pg EXCEPT !.op = "connect", !.log = <<>>, !.outcome = "error"]
    /\ PgFrame

\* func (p *Postgresql) Write(metrics []telegraf.Metric) error
\* Before the first successful Connect p.db is nil: the first statement of a
\* non-empty batch dereferences it and the process panics.
PgWrite(batch, answers) ==
    /\ pg.version # "none" /\ pg.outcome # "panic"
    /\ pg' = IF ~pg.connected /\ Len(batch) >= 1
             THEN [pg EXCEPT !.op = "write", !.log = <<>>, !.outcome = "panic"]
             ELSE PgLoop([pg EXCEPT !.op = "write", !.log = <<>>, !.outcome = "ok"],
                         batch, answers, 1)
    /\ PgFrame

DoPgConnect == \E opened \in BOOLEAN : PgConnect(opened)

DoPgWrite == \E batch \in PgBatches : \E answers \in AnswerSeqs(Len(batch)) : PgWrite(batch, answers)

NextPg == DoPgConnect \/ DoPgWrite

SpecPg == InitPg /\ [][NextPg]_vars

----------------------------------------------------------------------------
(* Vocabulary of the properties *)

Wrote == last.op = "write"
Posts == Count(last.trace, "post")
Resolves == Count(last.trace, "resolve")
GotResponse == Wrote /\ Posts = 1 /\ last.err # "transport"
Is2xx(status) == status >= 200 /\ status <= 299
Series == last.req.Timeseries

NameCount(labels) == Cardinality({i \in 1..Len(labels) : labels[i].Name = S_name})
SortedLabels(labels) ==
    \A i \in 1..(Len(labels) - 1) : ~StrLess(labels[i + 1].Name, labels[i].Name)
StrictlySortedLabels(labels) ==
    \A i \in 1..(Len(labels) - 1) : StrLess(labels[i].Name, labels[i + 1].Name)

\* a record whose tag keys sanitise to pairwise different names, none of them __name__
CleanTags(m) ==
    /\ \A i \in 1..Len(m.tags) : Sanitize(m.tags[i].Key) # S_name
    /\ \A i, j \in 1..Len(m.tags) :
           i # j => Sanitize(m.tags[i].Key) # Sanitize(m.tags[j].Key)

Dropped(m) == m.kind \in {"Histogram", "Summary"}
NumericField(f) == f.Value.type \in {"int64", "uint64", "float64"}
Kept(metrics) == SelectSeq(metrics, LAMBDA m : ~Dropped(m))

\* positions <<record, field>> of the numeric fields of the records that are not dropped
NumericPositions(metrics) ==
    {<<i, j>> \in (1..Len(metrics)) \X (1..MaxFields + 3) :
        /\ j <= Len(metrics[i].fields)
        /\ ~Dropped(metrics[i])
        /\ NumericField(metrics[i].fields[j])}

Before(p, q) == p[1] < q[1] \/ (p[1] = q[1] /\ p[2] < q[2])
Rank(P, p) == Cardinality({q \in P : Before(q, p)}) + 1

----------------------------------------------------------------------------
(* Claims *)

\* C1: from cursor 0, with a pool of size K and no rebuild, the P-th of P < K
\* consecutive successful Write calls selects index P, and no index repeats.
C1_RoundRobin ==
    streak.valid =>
        /\ \A P \in 1..Len(streak.idxs) :
               P < Len(clients) /\ streak.idxs[P] = P % Len(clients)
        /\ \A P, Q \in 1..Len(streak.idxs) : P # Q => streak.idxs[P] # streak.idxs[Q]

C1_Witness ==
    /\ streak.valid
    /\ Len(clients) >= 6
    /\ Len(streak.idxs) = Len(clients) - 1

\* C2 (as claimed): after a successful resolution of N addresses the pool holds 5 * N handles.
C2_PoolIsFiveTimesAddresses ==
    (last.outcome = "ok" /\ Resolves = 1) => Len(clients) = PoolFactor * last.resolvedN

\* C3: a response outside the 2xx class fails the call with an error carrying its
\* status; a response inside the 2xx class never yields the rejection error.
C3_RejectedCarriesStatus ==
    GotResponse =>
        /\ ~Is2xx(last.status) =>
               last.outcome = "error" /\ last.err = "rejected" /\ last.errStatus = last.status
        /\ Is2xx(last.status) => last.err # "rejected"

C3_Witness == GotResponse /\ last.err = "rejected" /\ last.errStatus = 503

\* C4: a Write call answered 2xx after the refresh deadline has passed makes exactly
\* one resolution attempt, as the last step of that call.
C4_RefreshOnceWhenPassed ==
    (GotResponse /\ Is2xx(last.status) /\ last.due = "after") =>
        /\ Resolves = 1
        /\ last.trace[Len(last.trace)] = "resolve"

C4_Witness == GotResponse /\ Is2xx(last.status) /\ last.due = "after" /\ Resolves = 1

\* C5 (as claimed): every Write call ends in success or in an error, and in success
\* exactly when the remote answered 2xx and the refresh it triggered, if any, succeeded.
C5_OneOutcome ==
    Wrote =>
        /\ last.outcome \in {"ok", "error"}
        /\ last.outcome = "ok" <=>
               (GotResponse /\ Is2xx(last.status) /\ (Resolves = 1 => last.resolvedN >= 1))
        /\ (Resolves = 1 /\ last.resolvedN = 0) =>
               (last.outcome = "error" /\ last.err \in {"tls", "dns"})

\* C6 (as claimed): a Write call issues at most one POST, exactly one when encoding
\* and request construction succeed, after the batch is encoded and compressed, and
\* none when encoding fails.
C6_OnePostAfterEncoding ==
    Wrote =>
        /\ Posts <= 1
        /\ (last.err \notin {"marshal", "request"}) => Posts = 1
        /\ last.err \in {"marshal", "request"} => Posts = 0
        /\ \A i \in 1..Len(last.trace) :
               last.trace[i] = "post" =>
                   \A e \in {"encode", "marshal", "compress"} :
                       \E j \in 1..(i - 1) : last.trace[j] = e

\* C7 (as claimed): the labels of every produced series are strictly sorted by name
\* and hold exactly one __name__ label, whatever the tag keys.
C7_StrictlySortedOneName ==
    Wrote =>
        \A k \in 1..Len(Series) :
            StrictlySortedLabels(Series[k].Labels) /\ NameCount(Series[k].Labels) = 1

\* C7 (amended): the labels of every produced series are sorted ascending by name,
\* equal names allowed, and hold at least one __name__ label; when the tag keys of
\* every record sanitise to different names other than __name__ they are strictly
\* sorted and hold exactly one __name__ label.
C7_SortedWithName ==
    Wrote =>
        /\ \A k \in 1..Len(Series) :
               SortedLabels(Series[k].Labels) /\ NameCount(Series[k].Labels) >= 1
        /\ (\A i \in 1..Len(last.metrics) : CleanTags(last.metrics[i])) =>
               \A k \in 1..Len(Series) :
                   StrictlySortedLabels(Series[k].Labels) /\ NameCount(Series[k].Labels) = 1

C7_Witness ==
    /\ Wrote
    /\ \E k \in 1..Len(Series) :
           /\ Len(Series[k].Labels) >= 3
           /\ Series[k].Labels[1].Name = S_name
           /\ Series[k].Labels[2].Name = Series[k].Labels[3].Name

\* C8: a Histogram or Summary record yields no series, and the other records of the
\* batch are encoded as if it were absent.
C8_DroppedKinds ==
    Wrote =>
        /\ last.req = Encode(Kept(last.metrics))
        /\ (\A i \in 1..Len(last.metrics) : Dropped(last.metrics[i])) => Series = <<>>

C8_Witness ==
    /\ Wrote
    /\ Len(last.metrics) = 2
    /\ last.metrics[1].kind = "Summary"
    /\ \E j \in 1..Len(last.metrics[1].fields) : NumericField(last.metrics[1].fields[j])
    /\ ~Dropped(last.metrics[2])
    /\ Len(Series) = 1

\* C9: a field that is not int64, uint64 or float64 yields no series, while each
\* numeric field of the same record yields its series.
C9_NonNumericFields ==
    Wrote =>
        LET P == NumericPositions(last.metrics)
        IN /\ Len(Series) = Cardinality(P)
           /\ \A p \in P :
                  \E k \in 1..Len(Series) :
                      Series[k] = MakeSeries(last.metrics[p[1]], last.metrics[p[1]].fields[p[2]])

C9_Witness ==
    /\ Wrote
    /\ Len(last.metrics) = 1
    /\ ~Dropped(last.metrics[1])
    /\ Len(last.metrics[1].fields) = 2
    /\ last.metrics[1].fields[1].Value.type = "string"
    /\ NumericField(last.metrics[1].fields[2])
    /\ Len(Series) = 1

\* C10: the request holds one series with one sample for each numeric field of each
\* record that is not a Histogram or Summary, in record-then-field order.
C10_OneSeriesPerNumericField ==
    Wrote =>
        LET P == NumericPositions(last.metrics)
        IN /\ Len(Series) = Cardinality(P)
           /\ \A p \in P :
                  Series[Rank(P, p)] =
                      MakeSeries(last.metrics[p[1]], last.metrics[p[1]].fields[p[2]])
           /\ \A k \in 1..Len(Series) : Len(Series[k].Samples) = 1

C10_Witness ==
    /\ Wrote
    /\ Len(last.metrics) = 2
    /\ Cardinality(NumericPositions(last.metrics)) >= 3
    /\ Len(Series) >= 3

\* the series name the specification gives for a metric name and a field key
ExpectedName(n, k) ==
    [i \in 1..(Len(n) + 1 + Len(k)) |->
        IF i <= Len(n) THEN (IF n[i] \in {CH_DOT, CH_DASH} THEN CH_UNDERSCORE ELSE n[i])
        ELSE IF i = Len(n) + 1 THEN CH_UNDERSCORE
        ELSE k[i - Len(n) - 1]]

S_cpu_usage_idle == <<99, 112, 117, 95, 117, 115, 97, 103, 101, 95, 105, 100, 108, 101>>
S_net_io_idle == <<110, 101, 116, 95, 105, 111, 95, 105, 100, 108, 101>>
S_mem_rx_b == <<109, 101, 109, 95, 114, 120, 46, 98>>

HasLabel(labels, n, v) == \E i \in 1..Len(labels) : labels[i].Name = n /\ labels[i].Value = v

\* C11: the __name__ label of every produced series is the metric name with "." and
\* "-" replaced by "_", then "_" and the field key unchanged (cpu.usage and idle give
\* cpu_usage_idle), and every tag's value is copied verbatim into its label.
C11_SeriesNameAndTagValues ==
    Wrote =>
        LET P == NumericPositions(last.metrics)
        IN \A p \in P :
               LET m == last.metrics[p[1]]
                   f == m.fields[p[2]]
                   labels == Series[Rank(P, p)].Labels
               IN /\ Len(labels) = Len(m.tags) + 1
                  /\ HasLabel(labels, S_name, ExpectedName(m.name, f.Key))
                  /\ \A t \in 1..Len(m.tags) :
                         HasLabel(labels, Sanitize(m.tags[t].Key), m.tags[t].Value)
                  /\ (m.name = S_cpu_usage /\ f.Key = S_idle) =>
                         HasLabel(labels, S_name, S_cpu_usage_idle)
                  /\ (m.name = S_net_io /\ f.Key = S_idle) =>
                         HasLabel(labels, S_name, S_net_io_idle)
                  /\ (m.name = S_mem /\ f.Key = S_rx_b) =>
                         HasLabel(labels, S_name, S_mem_rx_b)

C11_Witness ==
    /\ Wrote
    /\ Len(Series) = 2
    /\ HasLabel(Series[1].Labels, S_name, S_cpu_usage_idle)
    /\ HasLabel(Series[1].Labels, S_a_under_b, S_v2)
    /\ HasLabel(Series[1].Labels, S_host, S_v1)
    /\ HasLabel(Series[2].Labels, S_name, S_mem_rx_b)

\* a step that is one Write call
WriteStep == last'.op = "write" /\ now' = now

\* the time the pool was built, which is the time of the last successful resolution
BuiltAt == clients[1]

\* C12 (as claimed): whenever Write may be called the pool is non-empty, and the
\* cursor read at handle selection is a valid index of the pool.
C12_PoolNonEmptyCursorValid ==
    phase \in {"ready", "crashed"} =>
        /\ Len(clients) >= 1
        /\ last.outcome # "panic"
        /\ (Wrote /\ last.idx # -1) => (0 <= last.idx /\ last.idx = nextIndex)

\* C13: a Write call that fails at transport level or with a non-2xx response
\* attempts no resolution and leaves the handle list and the deadline as they were.
C13_FailedWriteLeavesPool ==
    [][(WriteStep /\ last'.err \in {"transport", "rejected"}) =>
          /\ Count(last'.trace, "resolve") = 0
          /\ clients' = clients
          /\ nextResolve' = nextResolve]_vars

C13_Witness ==
    /\ Wrote
    /\ last.err = "rejected"
    /\ last.errStatus = 503
    /\ last.due = "after"
    /\ Len(clients) >= 6

\* C14 (as claimed): a successful Write call that completes at now <= deadline,
\* now = deadline included, attempts no resolution.
C14_NoRefreshUpToDeadline ==
    (GotResponse /\ Is2xx(last.status) /\ last.due \in {"before", "at"}) => Resolves = 0

\* C15 (as claimed): a refresh that rebuilds the pool leaves the cursor at 0.
C15_CursorResetOnRebuild ==
    (Wrote /\ Resolves = 1 /\ last.resolvedN >= 1) => nextIndex = 0

\* C16: every Write call, whatever its outcome, leaves the cursor advanced by one,
\* or at 0 when the advance reaches the pool size.
C16_CursorAdvancesOnce ==
    [][WriteStep =>
          nextIndex' = IF nextIndex + 1 >= Len(clients) THEN 0 ELSE nextIndex + 1]_vars

C16_Witness ==
    /\ Wrote
    /\ last.err = "transport"
    /\ Len(clients) >= 6
    /\ nextIndex = 0

\* C17: after a successful resolution at time t the deadline lies in t+60 .. t+150,
\* and a Write call that succeeds less than 60 s after it attempts no resolution.
C17_DeadlineWindow ==
    /\ [](Len(clients) >= 1 =>
            (nextResolve >= BuiltAt + 60 /\ nextResolve <= BuiltAt + 150))
    /\ [][(WriteStep /\ Len(clients) >= 1 /\ now - BuiltAt < 60 /\ last'.outcome = "ok") =>
             Count(last'.trace, "resolve") = 0]_vars

C17_Witness ==
    /\ Wrote
    /\ last.outcome = "ok"
    /\ Resolves = 0
    /\ Len(clients) >= 1
    /\ now - BuiltAt = 59
    /\ nextResolve = BuiltAt + 60

\* C18 (as claimed, the sequential half): a lost cursor update or a cursor that is
\* no valid index at handle selection occurs only when two Write calls overlap.
C18_RaceOnlyWhenInterleaved == (calls.lost \/ calls.badRead) => calls.overlapped

\* C18, the concurrent half: with two overlapping calls an update of the cursor is
\* lost, and a cursor that is no valid index is read while the pool is whole.
C18_LostUpdateReached == calls.overlapped /\ calls.lost /\ Len(clients) >= 6

C18_InvalidIndexReached ==
    calls.overlapped /\ calls.badRead /\ Len(clients) >= 6 /\ nextIndex >= Len(clients)

\* C19: in the PostgreSQL output an INSERT is sent only for a table name marked in
\* p.Tables; a Write call marks a name only by an existence check that found the
\* table or a CREATE TABLE that succeeded, and unmarks none (the cache is emptied
\* only by Connect, which opens a new connection); CREATE TABLE is never sent for
\* a marked name; a failed CREATE TABLE ends the batch with the name unmarked and
\* no INSERT for that metric.
C19_InsertOnlyWhenMarked ==
    /\ [](\A i \in 1..Len(pg.log) :
             LET e == pg.log[i]
             IN /\ e.stmt = "insert" => e.marked
                /\ e.stmt = "create" => ~e.marked
                /\ (e.stmt = "create" /\ ~e.ok) =>
                       /\ i = Len(pg.log)
                       /\ pg.outcome = "error"
                       /\ e.table \notin pg.Tables)
    /\ [][pg'.op = "write" =>
             /\ pg.Tables \subseteq pg'.Tables
             /\ \A n \in pg'.Tables \ pg.Tables :
                    \E i \in 1..Len(pg'.log) :
                        /\ pg'.log[i].table = n
                        /\ pg'.log[i].ok
                        /\ pg'.log[i].stmt \in {"create", "select"}]_vars

C19_Witness ==
    /\ pg.version = "current"
    /\ pg.op = "write"
    /\ pg.Tables = {"cpu"}
    /\ Len(pg.log) = 5
    /\ pg.log[1].stmt = "select" /\ ~pg.log[1].ok /\ pg.log[1].table = "cpu"
    /\ pg.log[2].stmt = "create" /\ pg.log[2].ok
    /\ pg.log[3].stmt = "insert" /\ pg.log[3].ok /\ pg.log[3].marked
    /\ pg.log[5].stmt = "create" /\ ~pg.log[5].ok /\ pg.log[5].table = "mem"
    /\ pg.outcome = "error"

====
